---- MODULE Spec2Model ----
(***************************************************************************)
(* A model of oopsie.js (src/oopsie.js): the error registry, the error     *)
(* factories, the audit wrapper and the reporting pipeline.                *)
(*                                                                         *)
(* Text is modelled as a sequence of fragments.  The fragments "__" and    *)
(* "oopsieID_" spell the literal parts of the identifier pattern           *)
(* /__oopsieID_(\d+)__/ (its prefix is "__" followed by "oopsieID_", so a  *)
(* prefix that follows a digit run closes a match as the text does) and    *)
(* "0".."9" are the decimal digits; every other fragment is a piece of     *)
(* text in which the pattern cannot match.                                 *)
(* JavaScript values are records [kind, ref, text]; an Error object that   *)
(* lives in the registry is the reference [kind |-> "error", ref |-> pos]. *)
(*                                                                         *)
(* Each function is modelled as its own text defines it.  The file as a    *)
(* whole has one closing brace too few (circularRefSafeTranslate, lines    *)
(* 229-257, is never closed); the model reads the function as closed after *)
(* line 257.  jQuery's Deferred and $.extend follow jQuery's documentation.*)
(*                                                                         *)
(* Specifications: SpecRegistry (factories, makeError, retrieveError),     *)
(* SpecReport (handlers, reportError and its Deferreds), SpecAudit (the    *)
(* audit wrapper), SpecOnError (window.onerror), SpecErrors (every         *)
(* operation that registers an error), SpecFilter (filterOutOopsieId over  *)
(* texts), SpecStringify (stringify over heaps of arrays) and              *)
(* SpecTranslators (addTranslator and stringify).                          *)
(***************************************************************************)
EXTENDS Integers, Sequences, FiniteSets, TLC

\* ------------------------------------------------------------------ bounds
MaxErrors == 2
MaxGates == 2
MaxTextLen == 8
MaxNodes == 2

\* --------------------------------------------------------------- constants
VERSION == "0.1"

IdSuffix == "__"

IdWord == "oopsieID_"

IdPrefix == <<IdSuffix, IdWord>>

Digits == {"0", "1", "2", "3", "4", "5", "6", "7", "8", "9"}

DigitSeq == <<"0", "1", "2", "3", "4", "5", "6", "7", "8", "9">>

BuiltinTypes == {"assertionError", "javascriptError", "oopsieError"}

\* property names every plain object inherits from Object.prototype
PrototypeKeys == {"toString"}

\* ----------------------------------------------------------------- values
Undefined == [kind |-> "undefined", ref |-> -1, text |-> <<>>]

Null == [kind |-> "null", ref |-> -1, text |-> <<>>]

Str(t) == [kind |-> "string", ref |-> -1, text |-> t]

ErrObj(pos) == [kind |-> "error", ref |-> pos, text |-> <<>>]

\* the Error object held in the variable native
NativeObj == [kind |-> "native", ref |-> -1, text |-> <<>>]

FunctionV == [kind |-> "function", ref |-> -1, text |-> <<>>]

TypeErrorV == [kind |-> "TypeError", ref |-> -1, text |-> <<>>]

\* ------------------------------------------------------------ text helpers
DigitVal(d) == CHOOSE v \in 0..9 : DigitSeq[v + 1] = d

RECURSIVE ParseInt(_)
ParseInt(ds) ==
    IF ds = <<>> THEN 0
    ELSE 10 * ParseInt(SubSeq(ds, 1, Len(ds) - 1)) + DigitVal(ds[Len(ds)])

RECURSIVE NumToText(_)
NumToText(n) ==
    IF n < 10 THEN <<DigitSeq[n + 1]>>
    ELSE NumToText(n \div 10) \o <<DigitSeq[(n % 10) + 1]>>

RECURSIVE DigitRun(_, _)
DigitRun(t, i) ==
    IF i <= Len(t) /\ t[i] \in Digits THEN 1 + DigitRun(t, i + 1) ELSE 0

MatchAt(t, i) ==
    /\ i + 1 <= Len(t)
    /\ SubSeq(t, i, i + 1) = IdPrefix
    /\ DigitRun(t, i + 2) >= 1
    /\ i + 2 + DigitRun(t, i + 2) <= Len(t)
    /\ t[i + 2 + DigitRun(t, i + 2)] = IdSuffix

NoMatch == [found |-> FALSE, start |-> 0, len |-> 0, digits |-> <<>>]

ErrorIdRegExpMatch(t) ==
    IF \E i \in 1..Len(t) : MatchAt(t, i)
    THEN LET i == CHOOSE k \in 1..Len(t) :
                     MatchAt(t, k) /\ \A j \in 1..(k - 1) : ~MatchAt(t, j)
             n == DigitRun(t, i + 2)
         IN [found |-> TRUE, start |-> i, len |-> n + 3,
             digits |-> SubSeq(t, i + 2, i + n + 1)]
    ELSE NoMatch

IdToken(pos) == IdPrefix \o NumToText(pos) \o <<IdSuffix>>

\* ------------------------------------------------------------------- state
VARIABLES
    canStackTrace,   \* $.isFunction(window.printStackTrace), fixed at load
    errors,          \* the registry: errors[pos + 1] is the error stored at pos
    errorFactories,  \* own properties of errorFactories: type -> factoryOptions
    reportHandlers,  \* own properties of reportHandlers: type -> handler
    reporter,        \* oopsie.report.reporter: "null" or "function"
    gates,           \* one entry per reportError call: its Deferred
    reporterCalls,   \* invocations of the external reporter, in order
    afterCalls,      \* invocations of a handler's after hook, in order
    native,          \* the Error object application code threw last
    translators,     \* own properties of translators, in the order added
    ret              \* outcome of the last operation

vars == <<canStackTrace, errors, errorFactories, reportHandlers, reporter,
          gates, reporterCalls, afterCalls, native, translators, ret>>

\* ------------------------------------------------------------- option maps
EmptyOptions == [k \in {} |-> FALSE]

ReportNow(b) == [k \in {"reportImmediately"} |-> b]

\* an options argument: not passed (undefined) or an object
NoOptions == [given |-> FALSE, map |-> EmptyOptions]

Options(m) == [given |-> TRUE, map |-> m]

\* $.extend(target, source): source's own properties written over target's
Extend(target, source) ==
    [k \in (DOMAIN target) \cup (DOMAIN source) |->
        IF k \in DOMAIN source THEN source[k] ELSE target[k]]

\* ---------------------------------------------------------- error registry
\* errors[pos] of a JavaScript array: undefined outside 0..length-1
ArrayGet(errs, pos) ==
    IF 0 <= pos /\ pos < Len(errs) THEN ErrObj(pos) ELSE Undefined

\* a registration that numbers from the last index in use
registerErrorReusing(errs, err) ==
    LET pos == IF errs = <<>> THEN 0 ELSE Len(errs) - 1
    IN Append(errs, [err EXCEPT !.message = IdToken(pos) \o err.message])

registerError(errs, err) ==
    LET pos == Len(errs)
    IN Append(errs, [err EXCEPT !.message = IdToken(pos) \o err.message])

\* a lookup that clamps an index past the end to the last entry
retrieveErrorClamped(errs, msg) ==
    LET m == ErrorIdRegExpMatch(msg)
    IN IF m.found
       THEN LET pos == ParseInt(m.digits)
            IN IF Len(errs) <= pos THEN ArrayGet(errs, Len(errs) - 1) ELSE Null
       ELSE Null

retrieveError(errs, msg) ==
    LET m == ErrorIdRegExpMatch(msg)
    IN IF m.found
       THEN LET pos == ParseInt(m.digits)
            IN IF Len(errs) <= pos THEN ArrayGet(errs, pos) ELSE Null
       ELSE Null

filterOutOopsieId(msg) ==
    LET m == ErrorIdRegExpMatch(msg)
    IN IF m.found
       THEN SubSeq(msg, 1, m.start - 1)
                \o SubSeq(msg, m.start + m.len, Len(msg))
       ELSE msg

\* ---------------------------------------------------------- error creation
\* new Error(msg): an undefined message gives the empty message
NewError(type, msg) ==
    [type |-> type,
     message |-> IF msg.kind = "undefined" THEN <<>> ELSE msg.text,
     oopsie |-> VERSION,
     stackTrace |-> IF canStackTrace THEN "stack" ELSE "absent"]

\* text of a value inside a string concatenation
ConcatText(v) == IF v.kind = "undefined" THEN <<"undefined">> ELSE v.text

\* the function stored by errorFactory(type, ...), called with (msg, opts):
\* the state it leaves and the value it returns
factory(type, msg, opts) ==
    [errors |-> registerError(errors, NewError(type, msg)),
     factories |-> [errorFactories EXCEPT ![type] = Extend(@, opts.map)],
     value |-> Undefined]

UnknownTypeMessage(type, msg) ==
    Str(<<"[oopsie.makeError] unknown error type\ntype = \"", type, "\"\n">>
            \o ConcatText(msg))

makeError(type, msg, opts) ==
    IF type \in DOMAIN errorFactories
    THEN factory(type, msg, opts)
    ELSE IF type \in PrototypeKeys
         THEN \* errorFactories[type] is the inherited Object.prototype member
              [errors |-> errors, factories |-> errorFactories,
               value |-> Str(<<"[object Undefined]">>)]
         ELSE factory("oopsieError", UnknownTypeMessage(type, msg), opts)

\* ----------------------------------------------------------------- stringify
\* stringify of a string, of undefined and of an options object
StringifyString(t) == <<"\"">> \o t \o <<"\"">>

StringifyOptions(o) ==
    IF ~o.given THEN <<"\"undefined\"">>
    ELSE IF DOMAIN o.map = {} THEN <<"{}">>
    ELSE IF o.map["reportImmediately"] THEN <<"{\"reportImmediately\":true}">>
    ELSE <<"{\"reportImmediately\":false}">>

\* ------------------------------------------------------------- translators
\* a translator: the kinds of value its evaluator accepts and the text its
\* translator function returns
Translator(name, matches, text) ==
    [name |-> name, matches |-> matches, text |-> text]

\* the translators the library adds when it loads
DefaultTranslators ==
    << Translator("undefined", {"undefined"}, <<"undefined">>),
       Translator("function", {"function"}, <<"[function]">>),
       Translator("RegExp", {"regexp"}, <<"/re/">>),
       Translator("NaN", {"nan"}, <<"NaN">>),
       Translator("infinite", {"infinity"}, <<"Infinity">>),
       Translator("jQuery", {"jquery"}, <<"[jQuery: ", "<p></p>", "]">>) >>

\* translators[name] = [evaluator, translator]: a new property is added
\* last, an existing property keeps its place and gets the new value
addTranslator(trs, name, matches, text) ==
    IF \E i \in 1..Len(trs) : trs[i].name = name
    THEN [i \in 1..Len(trs) |->
             IF trs[i].name = name THEN Translator(name, matches, text)
             ELSE trs[i]]
    ELSE Append(trs, Translator(name, matches, text))

\* the properties whose names are array indices, in ascending order
IndexProperties(trs) ==
    LET present(d) == \E i \in 1..Len(trs) : trs[i].name = d
        names == SelectSeq(DigitSeq, present)
    IN [j \in 1..Len(names) |->
           trs[CHOOSE i \in 1..Len(trs) : trs[i].name = names[j]]]

NamedProperties(trs) ==
    LET named(e) == e.name \notin Digits
    IN SelectSeq(trs, named)

\* the orders in which `for (k in translators)` visits the properties: the
\* language leaves the order to the engine, which visits them as they were
\* added, or the array indices first in ascending order and then the others
ForInOrders(trs) == {trs, IndexProperties(trs) \o NamedProperties(trs)}

\* ---------------------------------------------------------------- stringify
\* values stringify is given besides the ones above: a reference to the
\* array heap[k] of a heap of arrays, and an object whose toJSON method
\* throws what ("Error": an Error object, "null": the value null)
Ref(k) == [kind |-> "object", ref |-> k, text |-> <<>>]

ToJSONThrows(what) == [kind |-> "toJSON", ref |-> -1, text |-> <<what>>]

Placeholder == "JSON.circularRef_"

\* the function circularRefSafeTranslate returns, called with value while
\* seen holds the objects of the earlier calls, the translators visited in
\* the order trs
translate(trs, seen, value) ==
    LET isObject == value.kind \in {"object", "null"}
        seenAt == IF \E i \in 1..Len(seen) : seen[i] = value
                  THEN (CHOOSE i \in 1..Len(seen) :
                           seen[i] = value
                           /\ \A j \in 1..(i - 1) : seen[j] # value) - 1
                  ELSE -1
        seen2 == IF isObject /\ seenAt = -1 THEN Append(seen, value) ELSE seen
        hits == { i \in 1..Len(trs) : value.kind \in trs[i].matches }
    IN IF isObject /\ seenAt # -1
       THEN [value |-> Str(<<Placeholder>> \o NumToText(seenAt)),
             seen |-> seen]
       ELSE IF hits # {}
       THEN [value |-> Str(trs[CHOOSE i \in hits : \A j \in hits : i <= j].text),
             seen |-> seen2]
       ELSE [value |-> value, seen |-> seen2]

\* JSON.stringify(o, replacer, ''): the walk of value over heap.  st is the
\* state of the walk: seen (the list of the replacer), out (the text written
\* so far) and thrown ("none", or what a toJSON method threw)
RECURSIVE SerializeJSONProperty(_, _, _, _)
RECURSIVE SerializeJSONArray(_, _, _, _, _)
SerializeJSONProperty(trs, heap, value, st) ==
    IF st.thrown # "none" THEN st
    ELSE IF value.kind = "toJSON" THEN [st EXCEPT !.thrown = value.text[1]]
    ELSE LET r == translate(trs, st.seen, value)
             st2 == [st EXCEPT !.seen = r.seen]
         IN CASE r.value.kind = "string" ->
                   [st2 EXCEPT !.out = @ \o <<"\"">> \o r.value.text \o <<"\"">>]
              [] r.value.kind = "object" ->
                   LET inner == SerializeJSONArray(trs, heap, heap[r.value.ref], 1,
                                    [st2 EXCEPT !.out = @ \o <<"[">>])
                   IN IF inner.thrown # "none" THEN inner
                      ELSE [inner EXCEPT !.out = @ \o <<"]">>]
              [] OTHER -> [st2 EXCEPT !.out = @ \o <<"null">>]

SerializeJSONArray(trs, heap, elems, i, st) ==
    IF i > Len(elems) \/ st.thrown # "none" THEN st
    ELSE SerializeJSONArray(trs, heap, elems, i + 1,
             SerializeJSONProperty(trs, heap, elems[i],
                 IF i > 1 THEN [st EXCEPT !.out = @ \o <<",">>] ELSE st))

\* stringify(o) for the value o over heap: what it returns or throws, and
\* the list seen of its replacer.  JSON.stringify returns undefined for a
\* value its replacer leaves undefined or a function; the catch block reads
\* err.message, which throws a TypeError where err is null
stringify(trs, heap, o) ==
    LET st == SerializeJSONProperty(trs, heap, o,
                  [seen |-> <<>>, out |-> <<>>, thrown |-> "none"])
        top == IF o.kind = "toJSON" THEN o ELSE translate(trs, <<>>, o).value
    IN IF st.thrown = "Error"
       THEN [kind |-> "return", seen |-> st.seen,
             value |-> Str(<<"stringify error: ", "[message]">>)]
       ELSE IF st.thrown = "null"
       THEN [kind |-> "throw", seen |-> st.seen, value |-> TypeErrorV]
       ELSE IF top.kind \in {"undefined", "function"}
       THEN [kind |-> "return", seen |-> st.seen, value |-> Undefined]
       ELSE [kind |-> "return", seen |-> st.seen, value |-> Str(st.out)]

\* ------------------------------------------------------------------ assert
\* the message assert builds from its message arguments when bool is false
AssertMessage(parts) ==
    IF Len(parts) = 0 THEN <<>>
    ELSE LET RECURSIVE Join(_)
             Join(i) == IF i = Len(parts) THEN parts[i]
                        ELSE parts[i] \o <<"\n">> \o Join(i + 1)
         IN Join(1)

\* assert(false, ...): throw makeError('assertionError', msg)
assertFail(parts) ==
    makeError("assertionError", Str(AssertMessage(parts)), NoOptions)

\* --------------------------------------------------------- error reporting
\* a handler field: what the function does when called, or "notFunction"
\*   before: "resolve"      calls defer.resolve()
\*           "resolveExtra" calls defer.resolve(extra)
\*           "reject"       calls defer.reject()
\*           "hold"         keeps the defer and settles it later
\*   after:  "noop" ($.noop) or "hook" (a function of the host)
BeforeKinds == {"resolve", "resolveExtra", "reject", "hold", "notFunction"}

AfterKinds == {"noop", "hook", "notFunction"}

ExtraArg == "extra"

defaultHandler == [before |-> "resolve", after |-> "noop"]

EmptyHandlers == [k \in {} |-> defaultHandler]

\* $.extend({}, defaultHandler, o || {}) for a handler object o, a function
\* from a subset of {"before", "after"}
ExtendHandler(o) == Extend(defaultHandler, o)

\* the objects addHandler is called with
HandlerArgs ==
    { [k \in {} |-> "noop"] }
      \cup { [k \in {"before"} |-> b] : b \in BeforeKinds }
      \cup { [k \in {"after"} |-> a] : a \in AfterKinds }
      \cup { [k \in {"before", "after"} |->
                 IF k = "before" THEN b ELSE a] :
             b \in {"reject", "hold", "resolveExtra"}, a \in {"hook"} }

\* an addHandler that extends the handler already registered for name
addHandlerMerging(handlers, name, o) ==
    [k \in (DOMAIN handlers) \cup {name} |->
        IF k = name
        THEN Extend(IF name \in DOMAIN handlers THEN handlers[name]
                    ELSE defaultHandler, o)
        ELSE handlers[k]]

addHandler(handlers, name, o) ==
    [k \in (DOMAIN handlers) \cup {name} |->
        IF k = name THEN ExtendHandler(o) ELSE handlers[k]]

\* $.type(err) of the jQuery releases the library was written for (before
\* 1.9), in which an Error instance has the type "object"
jQueryType(v) ==
    IF v.kind \in {"error", "native"} THEN "object" ELSE v.kind

isOopsieError(v) == jQueryType(v) = "object" /\ v.kind = "error"

\* reportHandlers[err.type], with the try/catch/finally of reportError
lookupHandler(handlers, errs, err) ==
    IF err.kind = "error" /\ errs[err.ref + 1].type \in DOMAIN handlers
    THEN ExtendHandler(handlers[errs[err.ref + 1].type])
    ELSE defaultHandler

\* oopsie.report is the object {reporter, addHandler}: it has no apply
\* method, so oopsie.report.apply(...) is a call of undefined
oopsieReportIsFunction == FALSE

\* the callback reportError registers with defer.done, run with extraArgs:
\* the calls it makes and whether it throws
doneCallback(g, err, handler, extraArgs) ==
    IF ~oopsieReportIsFunction
    THEN [reporterCalls |-> reporterCalls, afterCalls |-> afterCalls,
          thrown |-> TRUE]
    ELSE [reporterCalls |->
              Append(reporterCalls, [gate |-> g, args |-> <<err>> \o extraArgs]),
          afterCalls |-> IF handler.after # "notFunction"
                         THEN Append(afterCalls, g) ELSE afterCalls,
          thrown |-> FALSE]

\* a Deferred on which the after hook is also run when it is rejected
settleAfterAlways(g, gate, outcome, extraArgs) ==
    IF gate.state # "pending"
    THEN [gate |-> gate, reporterCalls |-> reporterCalls,
          afterCalls |-> afterCalls, thrown |-> FALSE]
    ELSE IF outcome = "resolved"
    THEN LET cb == doneCallback(g, gate.err, gate.handler, extraArgs)
         IN [gate |-> [gate EXCEPT !.state = "resolved", !.args = extraArgs],
             reporterCalls |-> cb.reporterCalls,
             afterCalls |-> cb.afterCalls, thrown |-> cb.thrown]
    ELSE [gate |-> [gate EXCEPT !.state = "rejected"],
          reporterCalls |-> reporterCalls,
          afterCalls |-> IF gate.handler.after # "notFunction"
                         THEN Append(afterCalls, g) ELSE afterCalls,
          thrown |-> FALSE]

\* a Deferred that a later resolve or reject settles again
settleAgain(g, gate, outcome, extraArgs) ==
    IF outcome = "resolved"
    THEN LET cb == doneCallback(g, gate.err, gate.handler, extraArgs)
         IN [gate |-> [gate EXCEPT !.state = "resolved", !.args = extraArgs],
             reporterCalls |-> cb.reporterCalls,
             afterCalls |-> cb.afterCalls, thrown |-> cb.thrown]
    ELSE [gate |-> [gate EXCEPT !.state = "rejected"],
          reporterCalls |-> reporterCalls,
          afterCalls |-> afterCalls, thrown |-> FALSE]

\* defer.resolve(extraArgs) / defer.reject() on the Deferred of call g: a
\* settled Deferred ignores it, a pending one runs its done callbacks on
\* resolve only
settle(g, gate, outcome, extraArgs) ==
    IF gate.state # "pending"
    THEN [gate |-> gate, reporterCalls |-> reporterCalls,
          afterCalls |-> afterCalls, thrown |-> FALSE]
    ELSE IF outcome = "resolved"
    THEN LET cb == doneCallback(g, gate.err, gate.handler, extraArgs)
         IN [gate |-> [gate EXCEPT !.state = "resolved", !.args = extraArgs],
             reporterCalls |-> cb.reporterCalls,
             afterCalls |-> cb.afterCalls, thrown |-> cb.thrown]
    ELSE [gate |-> [gate EXCEPT !.state = "rejected"],
          reporterCalls |-> reporterCalls,
          afterCalls |-> afterCalls, thrown |-> FALSE]

NewGate(err, handler) ==
    [err |-> err, handler |-> handler, state |-> "pending", args |-> <<>>]

\* reportError(err) as call number g: the Deferred it leaves, the calls made
\* and whether it throws
reportError(g, handlers, errs, err) ==
    LET handler == lookupHandler(handlers, errs, err)
        gate == NewGate(err, handler)
    IN CASE handler.before \in {"resolve", "notFunction"} ->
                settle(g, gate, "resolved", <<>>)
         [] handler.before = "resolveExtra" ->
                settle(g, gate, "resolved", <<ExtraArg>>)
         [] handler.before = "reject" ->
                settle(g, gate, "rejected", <<>>)
         [] OTHER ->
                [gate |-> gate, reporterCalls |-> reporterCalls,
                 afterCalls |-> afterCalls, thrown |-> FALSE]

\* ------------------------------------------------------------ audit wrapper
TypeOf(v) ==
    CASE v.kind \in {"null", "error", "native"} -> "object"
      [] OTHER -> v.kind

\* stringify(arguments) for the argument lists of the model
StringifyArguments(args) ==
    IF args = <<>> THEN <<"{}">>
    ELSE <<"{\"0\":">> \o StringifyString(args) \o <<"}">>

\* the message audit builds: the parts joined with "\n"
AuditMessage(base, name, args) ==
    base \o <<"\n", "[", name, "]", "\n", "Arguments:", "\n">>
         \o StringifyArguments(args)
         \o <<"\n", "toString:", "\n", "[object Object]">>

\* the value of a global variable `message`, where the host page has one
GlobalMessage == <<"[global message]">>

NoAugment(made, nat, err, failed) ==
    [errors |-> made.errors, factories |-> made.factories, native |-> nat,
     thrown |-> err, failed |-> failed]

\* a wrapper that writes the built message to the error before the step that
\* fails
auditCatchAssignsEarly(name, args, err, nat, declared) ==
    LET made == IF TypeOf(err) # "object"
                THEN makeError("oopsieError", Undefined, NoOptions)
                ELSE [errors |-> errors, factories |-> errorFactories,
                      value |-> err]
        newError == made.value
    IN IF newError.kind \in {"undefined", "null"}
       THEN NoAugment(made, nat, err, TRUE)
       ELSE [errors |-> IF newError.kind = "error"
                        THEN [made.errors EXCEPT ![newError.ref + 1].message =
                                 AuditMessage(@, name, args)]
                        ELSE made.errors,
             factories |-> made.factories,
             native |-> IF newError.kind = "native"
                        THEN [nat EXCEPT !.message = AuditMessage(@, name, args)]
                        ELSE nat,
             thrown |-> err,
             failed |-> ~declared]

\* the catch block of the wrapper for the thrown value err, nat being the
\* Error object of the application when err is one: the state it leaves, the
\* value the wrapper throws and whether a step before `throw newError`
\* failed.  The file declares no `message`, the identifier read by
\* `newError.message = message`: the read is a ReferenceError unless the host
\* page has a global of that name (declared)
auditCatch(name, args, err, nat, declared) ==
    LET made == IF TypeOf(err) # "object"
                THEN makeError("oopsieError", Undefined, NoOptions)
                ELSE [errors |-> errors, factories |-> errorFactories,
                      value |-> err]
        newError == made.value
    IN IF newError.kind \in {"undefined", "null"}
       THEN \* newError.message is a TypeError: caught, err is thrown
            NoAugment(made, nat, err, TRUE)
       ELSE IF ~declared
       THEN \* ReferenceError before the assignment: caught, err is thrown
            NoAugment(made, nat, err, TRUE)
       ELSE \* the global is assigned; newError is thrown, caught by the inner
            \* catch, and err is thrown
            [errors |-> IF newError.kind = "error"
                        THEN [made.errors EXCEPT ![newError.ref + 1].message =
                                 GlobalMessage]
                        ELSE made.errors,
             factories |-> made.factories,
             native |-> IF newError.kind = "native"
                        THEN [nat EXCEPT !.message = GlobalMessage]
                        ELSE nat,
             thrown |-> err,
             failed |-> FALSE]

\* -------------------------------------------------------------------- inputs
TokenZero == IdToken(0)

Msgs == { <<"timeout">>, TokenZero \o <<"boom">> }

\* texts retrieveError is probed with, besides the registered messages
ProbeTexts ==
    { <<>>, <<"timeout">>, IdPrefix \o <<IdSuffix>>, IdPrefix \o <<"1">>,
      <<"1", IdSuffix>>, <<"x">> \o IdToken(1),
      IdToken(2) \o <<"y">>, IdToken(3),
      IdToken(4), IdToken(10),
      IdPrefix \o <<"0", "1", IdSuffix>>,
      IdPrefix \o IdToken(5) \o <<"0", IdSuffix>> }

RegistryTexts == { errors[i].message : i \in 1..Len(errors) }

RetArg(op, kind, value, type, text, pre, gate, arg, args) ==
    [op |-> op, kind |-> kind, value |-> value, type |-> type,
     text |-> text, pre |-> pre, gate |-> gate, arg |-> arg, args |-> args,
     failed |-> FALSE]

Ret(op, kind, value, type, text, pre, gate) ==
    RetArg(op, kind, value, type, text, pre, gate, Undefined, <<>>)

\* ---------------------------------------------------------------------- Init
\* the library after its script has run
Loaded ==
    /\ canStackTrace \in BOOLEAN
    /\ errors = <<>>
    /\ errorFactories = [t \in BuiltinTypes |-> ReportNow(FALSE)]
    /\ reportHandlers = EmptyHandlers
    /\ reporter = "null"
    /\ gates = <<>>
    /\ reporterCalls = <<>>
    /\ afterCalls = <<>>
    /\ native = [message |-> <<>>]
    /\ translators = DefaultTranslators

Init ==
    /\ Loaded
    /\ ret = Ret("load", "return", Undefined, "", <<>>, 0, 0)

\* ------------------------------------------------------------------- actions
MakeErrorOp(types, msgs, optss) ==
    \E type \in types, msg \in msgs, opts \in optss :
        LET r == makeError(type, Str(msg), opts)
        IN /\ Len(errors) < MaxErrors
           /\ errors' = r.errors
           /\ errorFactories' = r.factories
           /\ ret' = RetArg("makeError", "return", r.value, type, msg,
                            Len(errors), 0, Undefined, <<opts>>)
           /\ UNCHANGED <<translators, canStackTrace, reportHandlers, reporter, gates,
                          reporterCalls, afterCalls, native>>

ErrorFactoryOp(types, optss) ==
    \E type \in types, options \in optss :
        IF type \in DOMAIN errorFactories
        THEN LET r == assertFail(<<StringifyString(<<"error factory already exists">>),
                                   StringifyString(<<type>>),
                                   StringifyOptions(options)>>)
             IN /\ Len(errors) < MaxErrors
                /\ errors' = r.errors
                /\ errorFactories' = r.factories
                /\ ret' = Ret("errorFactory", "throw", r.value, type, <<>>,
                              Len(errors), 0)
                /\ UNCHANGED <<translators, canStackTrace, reportHandlers, reporter, gates,
                               reporterCalls, afterCalls, native>>
        ELSE /\ errorFactories' =
                    [t \in (DOMAIN errorFactories) \cup {type} |->
                        IF t = type THEN Extend(ReportNow(FALSE), options.map)
                        ELSE errorFactories[t]]
             /\ ret' = Ret("errorFactory", "return", FunctionV, type, <<>>,
                           Len(errors), 0)
             /\ UNCHANGED <<translators, canStackTrace, errors, reportHandlers, reporter,
                            gates, reporterCalls, afterCalls, native>>

RetrieveErrorOp ==
    \E msg \in ProbeTexts \cup RegistryTexts :
        /\ ret' = Ret("retrieveError", "return", retrieveError(errors, msg),
                      "", msg, Len(errors), 0)
        /\ UNCHANGED <<translators, canStackTrace, errors, errorFactories, reportHandlers,
                       reporter, gates, reporterCalls, afterCalls, native>>

AddHandlerOp(names, objs) ==
    \E name \in names, o \in objs :
        /\ reportHandlers' = addHandler(reportHandlers, name, o)
        /\ ret' = RetArg("addHandler", "return", Undefined, name, <<>>,
                         Len(errors), 0, Undefined, <<o>>)
        /\ UNCHANGED <<translators, canStackTrace, errors, errorFactories, reporter, gates,
                       reporterCalls, afterCalls, native>>

\* the host assigns its reporting function to oopsie.report.reporter
SetReporter ==
    /\ reporter = "null"
    /\ reporter' = "function"
    /\ ret' = Ret("setReporter", "return", Undefined, "", <<>>, Len(errors), 0)
    /\ UNCHANGED <<translators, canStackTrace, errors, errorFactories, reportHandlers,
                   gates, reporterCalls, afterCalls, native>>

Registered == {ErrObj(p) : p \in 0..(Len(errors) - 1)}

ReportErrorOp(errs) ==
    \E err \in errs :
        LET g == Len(gates) + 1
            r == reportError(g, reportHandlers, errors, err)
        IN /\ Len(gates) < MaxGates
           /\ gates' = Append(gates, r.gate)
           /\ reporterCalls' = r.reporterCalls
           /\ afterCalls' = r.afterCalls
           /\ ret' = Ret("reportError", IF r.thrown THEN "throw" ELSE "return",
                         IF r.thrown THEN TypeErrorV ELSE Undefined,
                         "", <<>>, Len(errors), g)
           /\ UNCHANGED <<translators, canStackTrace, errors, errorFactories,
                          reportHandlers, reporter, native>>

\* a before hook of the host calls resolve or reject on the Deferred it was
\* given, at any later time and any number of times
GateSettle ==
    \E g \in 1..Len(gates), outcome \in {"resolved", "rejected"},
       extraArgs \in {<<>>, <<ExtraArg>>} :
        LET r == settle(g, gates[g], outcome, extraArgs)
        IN /\ gates[g].handler.before \in {"resolveExtra", "reject", "hold"}
           /\ outcome = "rejected" => extraArgs = <<>>
           /\ gates' = [gates EXCEPT ![g] = r.gate]
           /\ reporterCalls' = r.reporterCalls
           /\ afterCalls' = r.afterCalls
           /\ ret' = Ret(outcome, IF r.thrown THEN "throw" ELSE "return",
                         IF r.thrown THEN TypeErrorV ELSE Undefined,
                         "", <<>>, Len(errors), g)
           /\ UNCHANGED <<translators, canStackTrace, errors, errorFactories,
                          reportHandlers, reporter, native>>

\* a call of audit(name, fn) whose fn returns
AuditReturn(names, argss) ==
    \E name \in names, args \in argss :
        /\ ret' = RetArg("audit", "return", Str(<<"result">>), name, <<>>,
                         Len(errors), 0, Undefined, args)
        /\ UNCHANGED <<translators, canStackTrace, errors, errorFactories, reportHandlers,
                       reporter, gates, reporterCalls, afterCalls, native>>

\* a call of audit(name, fn) whose fn throws: a primitive, null, or a new
\* Error object with the message msg; the host page has a global variable
\* `message` or has none
AuditThrow(names, argss, msgs) ==
    \E name \in names, args \in argss, msg \in msgs :
      \E err \in {Str(msg), Undefined, Null, NativeObj}, declared \in BOOLEAN :
        LET nat == IF err = NativeObj THEN [message |-> msg] ELSE native
            r == auditCatch(name, args, err, nat, declared)
        IN /\ TypeOf(err) # "object" => Len(errors) < MaxErrors
           /\ errors' = r.errors
           /\ errorFactories' = r.factories
           /\ native' = r.native
           /\ ret' = [RetArg("audit", "throw", r.thrown, name,
                             IF err = NativeObj THEN msg ELSE <<>>,
                             Len(errors), 0, err, args)
                         EXCEPT !.failed = r.failed]
           /\ UNCHANGED <<translators, canStackTrace, reportHandlers, reporter, gates,
                          reporterCalls, afterCalls>>

\* window.onerror(msg, url, line)
OnErrorOp(msgs, url, line) ==
    \E msg \in msgs :
        LET found == retrieveError(errors, msg)
            made == IF ~isOopsieError(found)
                    THEN makeError("javascriptError",
                                   Str(msg \o <<"\n", url, "\n">> \o NumToText(line)),
                                   NoOptions)
                    ELSE [errors |-> errors, factories |-> errorFactories,
                          value |-> found]
            g == Len(gates) + 1
            r == reportError(g, reportHandlers, made.errors, made.value)
        IN /\ Len(gates) < MaxGates
           /\ ~isOopsieError(found) => Len(errors) < MaxErrors
           /\ errors' = made.errors
           /\ errorFactories' = made.factories
           /\ gates' = Append(gates, r.gate)
           /\ reporterCalls' = r.reporterCalls
           /\ afterCalls' = r.afterCalls
           /\ ret' = RetArg("onerror", IF r.thrown THEN "throw" ELSE "return",
                            IF r.thrown THEN TypeErrorV ELSE Undefined,
                            "", msg, Len(errors), g, made.value, <<>>)
           /\ UNCHANGED <<translators, canStackTrace, reportHandlers, reporter, native>>

\* filterOutOopsieId(msg) for the text msg that the state holds as input
FilterOutOp ==
    /\ ret.op = "input"
    /\ ret' = Ret("filterOutOopsieId", "return",
                  Str(filterOutOopsieId(ret.text)), "", ret.text,
                  Len(errors), 0)
    /\ UNCHANGED <<translators, canStackTrace, errors, errorFactories, reportHandlers,
                       reporter, gates, reporterCalls, afterCalls, native>>

\* addTranslator(name, evaluator, translator) with two functions
AddTranslatorOp(names, matchess, texts) ==
    \E name \in names, matches \in matchess, text \in texts :
        IF name = ""
        THEN LET r == assertFail(<<StringifyString(<<"[oopsie.addTranslator] requires a name, an evaluator function and a translator function">>)>>)
             IN /\ Len(errors) < MaxErrors
                /\ errors' = r.errors
                /\ errorFactories' = r.factories
                /\ ret' = Ret("addTranslator", "throw", r.value, name, <<>>,
                              Len(errors), 0)
                /\ UNCHANGED <<translators, canStackTrace, reportHandlers,
                               reporter, gates, reporterCalls, afterCalls, native>>
        ELSE /\ translators' = addTranslator(translators, name, matches, text)
             /\ ret' = RetArg("addTranslator", "return", Undefined, name, text,
                              Len(errors), 0, Undefined, <<matches>>)
             /\ UNCHANGED <<canStackTrace, errors, errorFactories,
                            reportHandlers, reporter, gates, reporterCalls,
                            afterCalls, native>>

\* stringify(o) for a value o that refers to no array
StringifyOp(values) ==
    \E o \in values, trs \in ForInOrders(translators) :
        LET r == stringify(trs, <<>>, o)
        IN /\ ret' = RetArg("stringify", r.kind, r.value, "", <<>>,
                            Len(errors), 0, o, <<<<>>, r.seen>>)
           /\ UNCHANGED <<translators, canStackTrace, errors, errorFactories,
                          reportHandlers, reporter, gates, reporterCalls,
                          afterCalls, native>>

\* stringify(o) for the value and the heap of arrays that the state holds as
\* input
StringifyInput ==
    /\ ret.op = "input"
    /\ \E trs \in ForInOrders(translators) :
          LET r == stringify(trs, ret.args[1], ret.arg)
          IN ret' = RetArg("stringify", r.kind, r.value, "", <<>>,
                           Len(errors), 0, ret.arg, <<ret.args[1], r.seen>>)
    /\ UNCHANGED <<translators, canStackTrace, errors, errorFactories,
                   reportHandlers, reporter, gates, reporterCalls,
                   afterCalls, native>>

\* ------------------------------------------------------------ specifications
MakeTypes == {"oopsieError", "networkError", "doesNotExist"}

FactoryTypes == {"networkError", "oopsieError"}

CallOptions == {NoOptions, Options(ReportNow(TRUE))}

NextRegistry ==
    \/ MakeErrorOp(MakeTypes, Msgs, CallOptions)
    \/ ErrorFactoryOp(FactoryTypes, CallOptions)
    \/ RetrieveErrorOp

SpecRegistry == Init /\ [][NextRegistry]_vars

ReportHandlerArgs ==
    { o \in HandlerArgs :
        \/ DOMAIN o = {}
        \/ DOMAIN o = {"before", "after"}
        \/ (DOMAIN o = {"before"} /\ o["before"] = "notFunction") }

NextReport ==
    \/ (errors = <<>> /\ MakeErrorOp({"oopsieError"}, {<<"timeout">>}, {NoOptions}))
    \/ AddHandlerOp({"oopsieError"}, ReportHandlerArgs)
    \/ SetReporter
    \/ ReportErrorOp(Registered)
    \/ GateSettle

SpecReport == Init /\ [][NextReport]_vars

AuditNames == {"Archive.log", "add"}

AuditArgs == {<<>>, <<"a">>}

NextAudit ==
    \/ AuditReturn(AuditNames, AuditArgs)
    \/ AuditThrow(AuditNames, AuditArgs, Msgs)
    \/ MakeErrorOp({"oopsieError"}, {<<"timeout">>}, {NoOptions})

SpecAudit == Init /\ [][NextAudit]_vars

\* messages the host environment notifies: those of the registered errors, a
\* native message and one with an identifier no error carries
OnErrorMsgs == RegistryTexts \cup { <<"Script error.">>, IdToken(7) \o <<"x">> }

NextOnError ==
    \/ MakeErrorOp({"oopsieError", "networkError"}, {<<"timeout">>}, {NoOptions})
    \/ AddHandlerOp({"javascriptError", "oopsieError"}, ReportHandlerArgs)
    \/ OnErrorOp(OnErrorMsgs, "app.js", 12)

SpecOnError == Init /\ [][NextOnError]_vars

\* every operation that registers an error
NextErrors ==
    \/ MakeErrorOp(MakeTypes, Msgs, {NoOptions})
    \/ ErrorFactoryOp({"oopsieError"}, {NoOptions})
    \/ AuditThrow({"add"}, {<<>>}, {<<"timeout">>})
    \/ OnErrorOp(OnErrorMsgs, "app.js", 12)

SpecErrors == Init /\ [][NextErrors]_vars

\* the texts of at most MaxTextLen fragments over the fragments of the
\* identifier pattern and one other fragment
TextAlphabet == {IdSuffix, IdWord, "1", "x"}

TextsOfLen(n) == [1..n -> TextAlphabet]

Texts == UNION { TextsOfLen(n) : n \in 0..MaxTextLen }

\* the loaded library with a text to hand to a function of texts
InitText ==
    /\ Loaded
    /\ \E msg \in Texts : ret = Ret("input", "return", Undefined, "", msg, 0, 0)

NextFilter == FilterOutOp

SpecFilter == InitText /\ [][NextFilter]_vars

\* the heaps of at most MaxNodes arrays, each of at most two elements: a
\* string, null, or a reference to an array of the heap
ElementValues(n) == {Str(<<"a">>), Null} \cup {Ref(k) : k \in 1..n}

Arrays(n) ==
    {<<>>} \cup {<<v>> : v \in ElementValues(n)}
           \cup {<<v, w>> : v \in ElementValues(n), w \in ElementValues(n)}

Heaps == UNION { [1..n -> Arrays(n)] : n \in 1..MaxNodes }

\* the values stringify is given: the first array of the heap or a value
\* that is no array
RootValues ==
    {Ref(1), Undefined, Null, Str(<<"a">>), FunctionV,
     ToJSONThrows("Error"), ToJSONThrows("null")}

InitGraph ==
    /\ Loaded
    /\ \E heap \in Heaps, o \in RootValues :
          ret = RetArg("input", "return", Undefined, "", <<>>, 0, 0, o, <<heap>>)

NextStringify == StringifyInput

SpecStringify == InitGraph /\ [][NextStringify]_vars

TranslatorNames == {"", "a", "1", "undefined"}

TranslatorMatches == {{"string"}, {"string", "undefined"}}

TranslatorTexts == {<<"A">>, <<"B">>}

NextTranslators ==
    \/ AddTranslatorOp(TranslatorNames, TranslatorMatches, TranslatorTexts)
    \/ StringifyOp({Str(<<"a">>), Undefined, Null})

SpecTranslators == Init /\ [][NextTranslators]_vars

\* ------------------------------------------------------------------- claims
\* t contains the fragments of sub, contiguous and in order
Contains(t, sub) ==
    \E i \in 0..(Len(t) - Len(sub)) : SubSeq(t, i + 1, i + Len(sub)) = sub

RetIndex == ParseInt(ErrorIdRegExpMatch(ret.text).digits)

\* C1: round trip -- retrieveError applied to the message of a registered
\* error returns that very error (the registry entry that carries the message)
C1_RoundTrip ==
    ret.op = "retrieveError" =>
        \A i \in 1..Len(errors) :
            errors[i].message = ret.text => ret.value = ErrObj(i - 1)

\* C2: retrieveError returns no error (null or undefined) and does not throw
\* for a text without an identifier and for a text whose identifier carries an
\* index greater than or equal to the length of the registry
C2_NoneOutOfRange ==
    (/\ ret.op = "retrieveError"
     /\ \/ ~ErrorIdRegExpMatch(ret.text).found
        \/ RetIndex >= Len(errors))
    => (ret.kind = "return" /\ ret.value \in {Null, Undefined})

C2_Witness ==
    /\ ret.op = "retrieveError"
    /\ Len(errors) >= 1
    /\ ErrorIdRegExpMatch(ret.text).found
    /\ RetIndex >= Len(errors)
    /\ ret.value = Undefined

\* C6: makeError with a type that has no registered factory returns a
\* registered error of the generic type "oopsieError" whose message names the
\* unknown type and contains the message passed in
C6_UnknownTypeFallback ==
    (ret.op = "makeError" /\ ret.type \notin DOMAIN errorFactories)
    => /\ ret.kind = "return"
       /\ ret.value.kind = "error"
       /\ ret.value.ref + 1 \in 1..Len(errors)
       /\ errors[ret.value.ref + 1].type = "oopsieError"
       /\ Contains(errors[ret.value.ref + 1].message, <<ret.type>>)
       /\ Contains(errors[ret.value.ref + 1].message, ret.text)

\* C7: errorFactory on a type that already has a factory throws an error of
\* the assertion type that reports the duplicate, and the factory registered
\* before stays as it was
C7_DuplicateFactoryFails ==
    [][ (ret'.op = "errorFactory" /\ ret'.type \in DOMAIN errorFactories)
        => /\ ret'.kind = "throw"
           /\ ret'.value.kind = "error"
           /\ ret'.value.ref + 1 \in 1..Len(errors')
           /\ errors'[ret'.value.ref + 1].type = "assertionError"
           /\ Contains(errors'[ret'.value.ref + 1].message,
                       <<"error factory already exists">>)
           /\ errorFactories'[ret'.type] = errorFactories[ret'.type] ]_vars

ReporterCallsOf(g) ==
    { i \in 1..Len(reporterCalls) : reporterCalls[i].gate = g }

AfterCallsOf(g) == { i \in 1..Len(afterCalls) : afterCalls[i] = g }

\* C3: for a reportError call whose Deferred was rejected, the external
\* reporter is never invoked and the handler's after hook is never invoked
C3_RejectedNotReported ==
    \A g \in 1..Len(gates) :
        gates[g].state = "rejected" =>
            (ReporterCallsOf(g) = {} /\ AfterCallsOf(g) = {})

C3_Witness ==
    \E g \in 1..Len(gates) :
        /\ gates[g].state = "rejected"
        /\ gates[g].handler.before = "reject"
        /\ gates[g].handler.after = "hook"
        /\ ret.op = "resolved"
        /\ ret.gate = g

\* C4: when a host reporter is supplied and the Deferred of a reportError call
\* becomes resolved, the reporter is invoked once, with the error followed by
\* the extra arguments of the resolve
C4_ReporterInvokedOnce ==
    [][ \A g \in 1..Len(gates') :
          (/\ reporter = "function"
           /\ gates'[g].state = "resolved"
           /\ (g > Len(gates) \/ gates[g].state = "pending"))
          => reporterCalls' =
                 Append(reporterCalls,
                        [gate |-> g, args |-> <<gates'[g].err>> \o gates'[g].args])
      ]_vars

\* C5: with no reporter supplied, a reportError call whose Deferred is
\* resolved throws nothing to its caller and invokes no reporter
C5_NoReporterSilentDrop ==
    (/\ ret.op = "reportError"
     /\ reporter = "null"
     /\ gates[ret.gate].state = "resolved")
    => (ret.kind = "return" /\ reporterCalls = <<>>)

\* C8: when the wrapped function throws a value that is not an object, the
\* wrapper throws a registered error whose message contains the bracketed
\* label and the serialized arguments of the call
C8_PlainValueClassified ==
    (ret.op = "audit" /\ ret.kind = "throw" /\ TypeOf(ret.arg) # "object")
    => /\ ret.value.kind = "error"
       /\ ret.value.ref + 1 \in 1..Len(errors)
       /\ Contains(errors[ret.value.ref + 1].message, <<"[", ret.type, "]">>)
       /\ Contains(errors[ret.value.ref + 1].message,
                   StringifyArguments(ret.args))

\* C9: when the wrapped function throws and a step of the wrapper's catch
\* block fails, the wrapper throws the very value the function threw, and an
\* Error object thrown by the function keeps the message it was thrown with
C9_OriginalRethrown ==
    (ret.op = "audit" /\ ret.kind = "throw" /\ ret.failed)
    => /\ ret.value = ret.arg
       /\ ret.arg = NativeObj => native.message = ret.text

C9_Witness ==
    /\ ret.op = "audit"
    /\ ret.kind = "throw"
    /\ ret.failed
    /\ ret.arg = NativeObj
    /\ ret.value = NativeObj
    /\ ret.text # <<>>
    /\ native.message = ret.text

\* C10: on window.onerror(msg, url, line), if msg carries the identifier of a
\* registered error, that error is passed to reportError and the registry is
\* left as it was; otherwise one error of type "javascriptError" is registered
\* and that error is passed to reportError
C10_OnErrorRouting ==
    [][ ret'.op = "onerror" =>
          LET m == ErrorIdRegExpMatch(ret'.text)
              pos == ParseInt(m.digits)
          IN IF m.found /\ pos < Len(errors)
             THEN /\ errors' = errors
                  /\ gates'[ret'.gate].err = ErrObj(pos)
             ELSE /\ Len(errors') = Len(errors) + 1
                  /\ errors'[Len(errors')].type = "javascriptError"
                  /\ SubSeq(errors', 1, Len(errors)) = errors
                  /\ gates'[ret'.gate].err = ErrObj(Len(errors)) ]_vars

\* C11: reportError for an error whose type has no registered handler uses
\* the default handler: the Deferred is resolved at once with no extra
\* arguments and the reporter is invoked with the error during the call
C11_DefaultHandlerReports ==
    (/\ ret.op = "reportError"
     /\ gates[ret.gate].err.kind = "error"
     /\ errors[gates[ret.gate].err.ref + 1].type \notin DOMAIN reportHandlers)
    => /\ gates[ret.gate].handler = defaultHandler
       /\ gates[ret.gate].state = "resolved"
       /\ gates[ret.gate].args = <<>>
       /\ ret.kind = "return"
       /\ \E i \in ReporterCallsOf(ret.gate) :
              reporterCalls[i].args = <<gates[ret.gate].err>>

\* the options of the factory that a makeError call for type uses
CalledFactory(type) ==
    IF type \in DOMAIN errorFactories THEN type ELSE "oopsieError"

\* C13: a factory call whose merged reportImmediately option (the options of
\* the call over those of the factory) is set passes the new error to
\* reportError; a call whose merged option is not set passes nothing
C13_ReportImmediately ==
    [][ ret'.op = "makeError" =>
          LET merged == Extend(errorFactories[CalledFactory(ret'.type)],
                               ret'.args[1].map)
          IN IF merged["reportImmediately"]
             THEN /\ Len(gates') = Len(gates) + 1
                  /\ gates'[Len(gates')].err = ErrObj(Len(errors))
             ELSE gates' = gates ]_vars

\* C14: filterOutOopsieId is idempotent: applied to its own result it
\* returns that result, for every text
C14_FilterIdempotent ==
    ret.op = "filterOutOopsieId" =>
        filterOutOopsieId(ret.value.text) = ret.value.text

\* C19: for every reportError call whose Deferred is resolved, the after hook
\* of its handler is invoked exactly once, and an after hook is only invoked
\* for a call whose reporter invocation was made
C19_AfterOnceAfterReporter ==
    \A g \in 1..Len(gates) :
        /\ (gates[g].state = "resolved" /\ gates[g].handler.after # "notFunction")
               => Cardinality(AfterCallsOf(g)) = 1
        /\ AfterCallsOf(g) # {} => ReporterCallsOf(g) # {}

\* C20: the Deferred of a reportError call settles at most once: once it is
\* resolved or rejected it stays as it is, a resolve or reject on it makes no
\* reporter and no after invocation, and no call is both rejected and reported
C20_SettlesOnce ==
    [][ /\ \A g \in 1..Len(gates) :
              gates[g].state # "pending" =>
                  /\ gates'[g] = gates[g]
                  /\ (ret'.op \in {"resolved", "rejected"} /\ ret'.gate = g)
                        => (reporterCalls' = reporterCalls
                            /\ afterCalls' = afterCalls)
        /\ \A i \in 1..Len(reporterCalls') :
              gates'[reporterCalls'[i].gate].state = "resolved" ]_vars

C20_Witness ==
    \E g \in 1..Len(gates) :
        /\ gates[g].handler.before = "hold"
        /\ gates[g].state = "resolved"
        /\ ret.op = "rejected"
        /\ ret.gate = g

\* C12: the handler applied to a record of type T is the one of the most
\* recent addHandler(T, o): addHandler(T, o) sets the handler of T to the
\* fields of o, each field o leaves out being that of the default handler
\* (whatever was registered for T before), no other operation changes a
\* registered handler, and reportError applies the registered handler of the
\* record's type
C12_MostRecentHandler ==
    [][ /\ ret'.op = "addHandler" =>
              /\ DOMAIN reportHandlers' = DOMAIN reportHandlers \cup {ret'.type}
              /\ \A k \in {"before", "after"} :
                    reportHandlers'[ret'.type][k] =
                        IF k \in DOMAIN ret'.args[1] THEN ret'.args[1][k]
                        ELSE defaultHandler[k]
              /\ \A t \in DOMAIN reportHandlers \ {ret'.type} :
                    reportHandlers'[t] = reportHandlers[t]
        /\ ret'.op # "addHandler" => reportHandlers' = reportHandlers
        /\ (/\ ret'.op = "reportError"
            /\ gates'[ret'.gate].err.kind = "error"
            /\ errors[gates'[ret'.gate].err.ref + 1].type \in DOMAIN reportHandlers)
              => /\ gates'[ret'.gate].handler =
                        reportHandlers[errors[gates'[ret'.gate].err.ref + 1].type]
                 /\ (gates'[ret'.gate].handler.before = "resolve"
                        => gates'[ret'.gate].state = "resolved") ]_vars

\* a report under a handler with an after hook, then a report of the same
\* record after a registration that leaves after out
C12_Witness ==
    /\ ret.op = "reportError"
    /\ ret.gate > 1
    /\ gates[ret.gate].handler.after = "noop"
    /\ \E g \in 1..(ret.gate - 1) :
          /\ gates[g].err = gates[ret.gate].err
          /\ gates[g].handler.after = "hook"

\* the number of matches of the identifier pattern in t, left to right
RECURSIVE CountMatches(_)
CountMatches(t) ==
    LET m == ErrorIdRegExpMatch(t)
    IN IF m.found
       THEN 1 + CountMatches(SubSeq(t, m.start + m.len, Len(t)))
       ELSE 0

\* C17: the registry is append-only and the identifier of every error is its
\* position: a step appends at most one error and leaves every earlier entry
\* as it was, and the message of the error at position pos begins with the
\* identifier of pos, so identifiers increase by one and none is used twice
C17_RegistryAppendOnly ==
    [][ /\ Len(errors') \in {Len(errors), Len(errors) + 1}
        /\ \A i \in 1..Len(errors) : errors'[i] = errors[i]
        /\ \A i \in 1..Len(errors') :
              LET m == ErrorIdRegExpMatch(errors'[i].message)
              IN /\ m.found
                 /\ m.start = 1
                 /\ m.digits = NumToText(i - 1)
                 /\ ParseInt(m.digits) = i - 1 ]_vars

C17_Witness ==
    /\ Len(errors) >= 2
    /\ errors[1].type # errors[2].type
    /\ ret.op \in {"onerror", "audit"}
    /\ ret.pre = Len(errors) - 1

\* C18: the message of every registered error holds exactly one identifier,
\* whatever text the error was created with
C18_ExactlyOneToken ==
    \A i \in 1..Len(errors) : CountMatches(errors[i].message) = 1

\* the places of out that hold the placeholder of index idx
PlaceholdersOf(out, idx) ==
    LET n == Len(NumToText(idx))
    IN { p \in 1..Len(out) :
           /\ out[p] = Placeholder
           /\ p + n + 1 <= Len(out)
           /\ SubSeq(out, p + 1, p + n) = NumToText(idx)
           /\ out[p + n + 1] = "\"" }

\* the references to array k that a walk from o which entered the arrays of
\* seen comes across
ReferencesTo(heap, seen, o, k) ==
    LET entered == { n \in DOMAIN heap : \E i \in 1..Len(seen) : seen[i] = Ref(n) }
        inside == UNION { { <<n, j>> : j \in { j \in DOMAIN heap[n] :
                                                  heap[n][j] = Ref(k) } } :
                          n \in entered }
    IN Cardinality(inside) + (IF o = Ref(k) THEN 1 ELSE 0)

\* C15: stringify returns a string and throws nothing for every value and
\* heap, cyclic ones included; where the walk runs to its end, each array is
\* written out once, at the first reference to it, and every later reference
\* to it is written as the placeholder of its index in the list seen
C15_StringifyTotal ==
    ret.op = "stringify" =>
        /\ ret.kind = "return"
        /\ ret.value.kind = "string"
        /\ ret.value.text[1] # "stringify error: " =>
              LET heap == ret.args[1]
                  seen == ret.args[2]
                  out == ret.value.text
              IN /\ \A i \in 1..Len(seen), j \in 1..Len(seen) :
                        (seen[i] = seen[j]) => i = j
                 /\ Cardinality({ p \in 1..Len(out) : out[p] = "[" }) =
                        Cardinality({ i \in 1..Len(seen) : seen[i].kind = "object" })
                 /\ \A i \in 1..Len(seen) :
                        seen[i].kind = "object" =>
                            Cardinality(PlaceholdersOf(out, i - 1)) =
                                ReferencesTo(heap, seen, ret.arg, seen[i].ref) - 1

\* the translators whose evaluator accepts v, by their place in translators
Accepting(v) == { i \in 1..Len(translators) : v.kind \in translators[i].matches }

\* C16: where the evaluators of two or more translators accept the value,
\* stringify writes the text of the one added first
C16_FirstTranslatorWins ==
    (/\ ret.op = "stringify"
     /\ Cardinality(Accepting(ret.arg)) >= 2)
    => LET first == CHOOSE i \in Accepting(ret.arg) :
                        \A j \in Accepting(ret.arg) : i <= j
       IN ret.value = Str(<<"\"">> \o translators[first].text \o <<"\"">>)

\* the Deferreds other than g that are pending
OtherPending(g) ==
    { h \in 1..Len(gates) : h # g /\ gates[h].state = "pending" }

\* C21: while the Deferreds of several reportError calls are pending, a
\* resolve or reject of one of them decides that call alone: a resolve
\* invokes the supplied reporter once, with the error of that call and the
\* extra arguments of the resolve, a reject invokes nothing, and the other
\* pending Deferreds and the invocations made for them stay as they are
C21_GatesIndependent ==
    [][ \A g \in 1..Len(gates) :
          (/\ ret'.op \in {"resolved", "rejected"}
           /\ ret'.gate = g
           /\ gates[g].state = "pending"
           /\ OtherPending(g) # {})
          => /\ \A h \in OtherPending(g) : gates'[h] = gates[h]
             /\ \A i \in 1..Len(reporterCalls) :
                   reporterCalls'[i] = reporterCalls[i]
             /\ afterCalls' = afterCalls \/ afterCalls' = Append(afterCalls, g)
             /\ (ret'.op = "rejected") => reporterCalls' = reporterCalls
             /\ (ret'.op = "resolved" /\ reporter = "function")
                   => reporterCalls' =
                         Append(reporterCalls,
                                [gate |-> g,
                                 args |-> <<gates[g].err>> \o gates'[g].args])
      ]_vars

\* C22: the translators are append-only: addTranslator under a name that is
\* in use, a default translator's included, throws and leaves translators as
\* it was, and no step removes or replaces a translator
C22_TranslatorsAppendOnly ==
    [][ /\ (/\ ret'.op = "addTranslator"
            /\ \E i \in 1..Len(translators) : translators[i].name = ret'.type)
           => (ret'.kind = "throw" /\ translators' = translators)
        /\ Len(translators') >= Len(translators)
        /\ \A i \in 1..Len(translators) : translators'[i] = translators[i]
      ]_vars

\* C23: the options passed to one factory call apply to that call only: a
\* makeError call leaves the options stored for every factory as they were
\* given to errorFactory, so a later call without options uses those
C23_FactoryDefaultsKept ==
    [][ ret'.op = "makeError" =>
          /\ DOMAIN errorFactories' = DOMAIN errorFactories
          /\ \A t \in DOMAIN errorFactories :
                errorFactories'[t] = errorFactories[t] ]_vars

====
